---- MODULE Spec2Model ----
(***************************************************************************)
(* A model of the delta instruction code of JokNavi/deltas.                *)
(*                                                                         *)
(*   src/src/instructions.rs                     enum Instruction          *)
(*       {Remove{length: u8}, Add{content}, Copy{content}}: len, is_empty, *)
(*       is_full, push, sign, to_bytes, try_from_bytes (1 length byte).    *)
(*   src/src/instructions/remove_instruction.rs  struct RemoveInstruction  *)
(*       over the type alias InstructionLength: len, is_empty, is_full,    *)
(*       push, fill, byte_sign, byte_length, to_bytes, try_from_bytes.     *)
(*                                                                         *)
(* The LCS engine, Add.fill, Copy.fill, the diff loop, the decode loop and *)
(* the applier are not among the source files; they are modelled from      *)
(* spec.md sections 4.1 - 4.5.                                             *)
(*                                                                         *)
(* An instruction is a record [kind, length, content].  kind is            *)
(* "RemoveInstruction" for the struct and "Remove", "Add", "Copy" for the  *)
(* variants of the enum.  A byte cursor (Peekable<Iter<u8>>) is a sequence *)
(* and the 1-based index of the item next() would return.                  *)
(***************************************************************************)
EXTENDS Integers, Sequences, FiniteSets

VARIABLES
    w,          \* size_of::<InstructionLength>() of the build, in bytes
    instr,      \* the instruction being grown (push, fill)
    prev,       \* instr before the last call
    item,       \* the item handed to the last push
    result,     \* what the last call returned: "none", "Ok", an error name, "panic"
    calls,      \* number of calls made so far
    codec,      \* the type whose to_bytes / try_from_bytes is in use
    wire,       \* the bytes a cursor runs over
    pos,        \* the byte cursor: index of the byte next() returns
    prevPos,    \* the byte cursor before the last try_from_bytes
    stream,     \* the sealed instructions, in order
    starts,     \* starts[k]: index in wire of the first byte of stream[k]
    encoded,    \* to_bytes of the instruction sealed last
    decoded,    \* the instructions decoded so far
    lcs,        \* the LCS backbone
    source,     \* the source items
    target,     \* the target items
    lcs_i,      \* cursor over lcs
    source_i,   \* cursor over source
    target_i,   \* cursor over target
    pc,         \* position of the diff loop
    iterStart   \* the three cursors when the running outer iteration began

vars == <<w, codec, instr, prev, item, result, calls, wire, pos, prevPos, stream, starts,
          encoded, decoded, lcs, source, target, lcs_i, source_i, target_i, pc,
          iterStart>>

growVars == <<instr, prev, item, result, calls>>
codecVars == <<codec, wire, pos, prevPos, stream, starts, encoded, decoded>>
diffVars == <<lcs, source, target, lcs_i, source_i, target_i, pc, iterStart>>

---------------------------------------------------------------------------
(* Program constants.                                                      *)

MAX_INSTRUCTION_LENGTH == 255
MIN_INSTRUCTION_LENGTH == 0
REMOVE_INSTRUCTION_SIGN == 45
ADD_INSTRUCTION_SIGN == 43
COPY_INSTRUCTION_SIGN == 124

(* Bounds of the model.                                                    *)

\* push calls made on an instruction that is already full
ExtraPushes == 2
\* pushes whose item is drawn from Items; later ones push the default item
VariedPushes == 4
\* longest raw byte input handed to try_from_bytes
MaxWire == 5
\* longest instruction stream that is encoded and decoded again
MaxStream == 2
\* longest enumerated content of an Add or Copy of such a stream
MaxContent == 2
\* longest LCS and source handed to one call of Remove.fill
MaxFill == 3
\* longest source and target handed to diff
MaxInput == 3

\* The widths of InstructionLength that are modelled: u8 and u16.
Widths == {1, 2}

\* InstructionItem values handed to push.
Items == {0, 1}

Byte == 0 .. 255

\* The bytes raw inputs are made of: small lengths, the three signs ('+', '-',
\* '|') and values that are no sign.
WireBytes == {0, 1, 2, 43, 45, 124}

\* The lengths of the Remove instructions of an encoded stream.
LengthSamples == {0, 1, 2, 255, 256, 258, 65534, 65535}

\* The items of the enumerated contents; 45 is also the Remove sign.
ContentItems == {1, 45}

\* The bytes diff inputs are made of: "A" and "B".
DiffItems == {65, 66}

SeqsUpTo(S, n) == UNION {[1 .. k -> S] : k \in 0 .. n}

NoInstr == [kind |-> "none", length |-> 0, content |-> <<>>]

Min(a, b) == IF a <= b THEN a ELSE b

---------------------------------------------------------------------------
(* The instruction model: enum Instruction (instructions.rs).              *)

Remove(length) == [kind |-> "Remove", length |-> length, content |-> <<>>]
Add(content) == [kind |-> "Add", length |-> 0, content |-> content]
Copy(content) == [kind |-> "Copy", length |-> 0, content |-> content]

\* len(): the counter of a Remove, content.len() as u8 of an Add or Copy.
Instruction_len(i) ==
    IF i.kind = "Remove" THEN i.length ELSE Len(i.content) % 256

Instruction_is_empty(i) == Instruction_len(i) = MIN_INSTRUCTION_LENGTH

Instruction_is_full(i) == Instruction_len(i) = MAX_INSTRUCTION_LENGTH

\* push without the is_full test: the u8 counter wraps, the content grows on.
Instruction_push_unchecked(i, byte) ==
    IF i.kind = "Remove"
    THEN [result |-> "Ok", instr |-> [i EXCEPT !.length = (i.length + 1) % 256]]
    ELSE [result |-> "Ok", instr |-> [i EXCEPT !.content = Append(i.content, byte)]]

\* push(byte): ContentOverflow on a full instruction, else one more item.
Instruction_push(i, byte) ==
    IF Instruction_is_full(i) THEN [result |-> "ContentOverflow", instr |-> i]
    ELSE IF i.kind = "Remove"
    THEN [result |-> "Ok", instr |-> [i EXCEPT !.length = (i.length + 1) % 256]]
    ELSE [result |-> "Ok", instr |-> [i EXCEPT !.content = Append(i.content, byte)]]

---------------------------------------------------------------------------
(* The instruction model: struct RemoveInstruction (remove_instruction.rs) *)
(* over InstructionLength, an unsigned integer of w bytes.                 *)

\* InstructionLength::MAX for the build's width.
InstructionLengthMAX == 256 ^ w - 1

\* InstructionLength::MIN.
InstructionLengthMIN == 0

RemoveInstruction_new(length) ==
    [kind |-> "RemoveInstruction", length |-> length, content |-> <<>>]

RemoveInstruction_len(i) == i.length

RemoveInstruction_is_empty(i) == RemoveInstruction_len(i) = InstructionLengthMIN

RemoveInstruction_is_full(i) == RemoveInstruction_len(i) = InstructionLengthMAX

\* push(_): ContentOverflow on a full instruction, else the counter goes up.
RemoveInstruction_push(i, byte) ==
    IF RemoveInstruction_is_full(i) THEN [result |-> "ContentOverflow", instr |-> i]
    ELSE [result |-> "Ok",
          instr |-> [i EXCEPT !.length = (i.length + 1) % (InstructionLengthMAX + 1)]]

---------------------------------------------------------------------------
(* Static dispatch on the instruction's type.                              *)

MaxOf(i) ==
    IF i.kind = "RemoveInstruction" THEN InstructionLengthMAX
    ELSE MAX_INSTRUCTION_LENGTH

MinOf(i) ==
    IF i.kind = "RemoveInstruction" THEN InstructionLengthMIN
    ELSE MIN_INSTRUCTION_LENGTH

len(i) ==
    IF i.kind = "RemoveInstruction" THEN RemoveInstruction_len(i)
    ELSE Instruction_len(i)

is_full(i) ==
    IF i.kind = "RemoveInstruction" THEN RemoveInstruction_is_full(i)
    ELSE Instruction_is_full(i)

push(i, byte) ==
    IF i.kind = "RemoveInstruction" THEN RemoveInstruction_push(i, byte)
    ELSE Instruction_push(i, byte)

---------------------------------------------------------------------------
(* Byte cursors and the fixed-width length field.                          *)

\* Iterator::take(n) on a cursor at p: the items it yields and where it stops.
take(bytes, p, n) ==
    LET k == Min(n, Len(bytes) - p + 1) IN
    [items |-> SubSeq(bytes, p, p + k - 1), pos |-> p + k]

RECURSIVE to_le_bytes(_, _)
\* The length field written least significant byte first.
to_le_bytes(n, width) ==
    IF width = 0 THEN <<>>
    ELSE <<n % 256>> \o to_le_bytes(n \div 256, width - 1)

RECURSIVE to_be_bytes(_, _)
\* InstructionLength::to_be_bytes: width bytes, most significant first.
to_be_bytes(n, width) ==
    IF width = 0 THEN <<>>
    ELSE Append(to_be_bytes(n \div 256, width - 1), n % 256)

RECURSIVE from_be_bytes(_)
\* InstructionLength::from_be_bytes.
from_be_bytes(bs) ==
    IF bs = <<>> THEN 0
    ELSE from_be_bytes(SubSeq(bs, 1, Len(bs) - 1)) * 256 + bs[Len(bs)]

Failed(error, p) == [result |-> error, instr |-> NoInstr, pos |-> p]

Decoded(i, p) == [result |-> "Ok", instr |-> i, pos |-> p]

---------------------------------------------------------------------------
(* The codec of enum Instruction (instructions.rs): one length byte.       *)

Instruction_sign(i) ==
    CASE i.kind = "Remove" -> REMOVE_INSTRUCTION_SIGN
      [] i.kind = "Add" -> ADD_INSTRUCTION_SIGN
      [] i.kind = "Copy" -> COPY_INSTRUCTION_SIGN

\* to_bytes with the content written before the length byte.
Instruction_to_bytes_content_first(i) ==
    IF i.kind = "Remove" THEN <<REMOVE_INSTRUCTION_SIGN, i.length>>
    ELSE <<Instruction_sign(i)>> \o i.content \o <<Len(i.content) % 256>>

Instruction_to_bytes(i) ==
    IF i.kind = "Remove" THEN <<REMOVE_INSTRUCTION_SIGN, i.length>>
    ELSE <<Instruction_sign(i), Len(i.content) % 256>> \o i.content

\* ReadContent without the test of the content's length.
ReadContentUnchecked(kind, bytes, p) ==
    IF p > Len(bytes) THEN Failed("MissingLength", p)
    ELSE LET length == bytes[p]
             c == take(bytes, p + 1, length)
         IN  Decoded([kind |-> kind, length |-> 0, content |-> c.items], c.pos)

\* The content of an Add or Copy: take(length), MissingContent when it is short.
ReadContent(kind, bytes, p) ==
    IF p > Len(bytes) THEN Failed("MissingLength", p)
    ELSE LET length == bytes[p]
             c == take(bytes, p + 1, length)
         IN  IF Len(c.items) # length THEN Failed("MissingContent", c.pos)
             ELSE Decoded([kind |-> kind, length |-> 0, content |-> c.items], c.pos)

\* try_from_bytes with the Copy arm returning an Add.
Instruction_try_from_bytes_copy_as_add(bytes, p) ==
    IF p > Len(bytes) THEN Failed("MissingSign", p)
    ELSE CASE bytes[p] = REMOVE_INSTRUCTION_SIGN ->
                IF p + 1 > Len(bytes) THEN Failed("MissingLength", p + 1)
                ELSE Decoded(Remove(bytes[p + 1]), p + 2)
           [] bytes[p] = ADD_INSTRUCTION_SIGN -> ReadContent("Add", bytes, p + 1)
           [] bytes[p] = COPY_INSTRUCTION_SIGN -> ReadContent("Add", bytes, p + 1)
           [] OTHER -> Failed("InvalidSign", p + 1)

\* try_from_bytes on the cursor at p: the sign, the length byte, the content.
Instruction_try_from_bytes(bytes, p) ==
    IF p > Len(bytes) THEN Failed("MissingSign", p)
    ELSE CASE bytes[p] = REMOVE_INSTRUCTION_SIGN ->
                IF p + 1 > Len(bytes) THEN Failed("MissingLength", p + 1)
                ELSE Decoded(Remove(bytes[p + 1]), p + 2)
           [] bytes[p] = ADD_INSTRUCTION_SIGN -> ReadContent("Add", bytes, p + 1)
           [] bytes[p] = COPY_INSTRUCTION_SIGN -> ReadContent("Copy", bytes, p + 1)
           [] OTHER -> Failed("InvalidSign", p + 1)

---------------------------------------------------------------------------
(* The codec of RemoveInstruction (remove_instruction.rs): w length bytes. *)

RemoveInstruction_byte_sign(i) == REMOVE_INSTRUCTION_SIGN

RemoveInstruction_byte_length(i) == w + 1

\* to_bytes with the length field in little-endian order.
RemoveInstruction_to_bytes_le(i) ==
    <<REMOVE_INSTRUCTION_SIGN>> \o to_le_bytes(RemoveInstruction_len(i), w)

RemoveInstruction_to_bytes(i) ==
    <<REMOVE_INSTRUCTION_SIGN>> \o to_be_bytes(RemoveInstruction_len(i), w)

\* try_from_bytes without the peek for a missing length.
RemoveInstruction_try_from_bytes_no_peek(bytes, p) ==
    IF p > Len(bytes) THEN Failed("MissingSign", p)
    ELSE IF bytes[p] # REMOVE_INSTRUCTION_SIGN THEN Failed("InvalidSign", p + 1)
    ELSE LET length_bytes == take(bytes, p + 1, w) IN
         IF Len(length_bytes.items) # w THEN Failed("InvalidLength", length_bytes.pos)
         ELSE Decoded(RemoveInstruction_new(from_be_bytes(length_bytes.items)),
                      length_bytes.pos)

\* try_from_bytes on the cursor at p.  The code spells the first error
\* MissignSign; the model names it MissingSign.
RemoveInstruction_try_from_bytes(bytes, p) ==
    IF p > Len(bytes) THEN Failed("MissingSign", p)
    ELSE IF bytes[p] # REMOVE_INSTRUCTION_SIGN THEN Failed("InvalidSign", p + 1)
    ELSE IF p + 1 > Len(bytes) THEN Failed("MissingLength", p + 1)
    ELSE LET length_bytes == take(bytes, p + 1, w) IN
         IF Len(length_bytes.items) # w THEN Failed("InvalidLength", length_bytes.pos)
         ELSE Decoded(RemoveInstruction_new(from_be_bytes(length_bytes.items)),
                      length_bytes.pos)

---------------------------------------------------------------------------
(* Static dispatch of the codec.                                           *)

to_bytes(i) ==
    IF i.kind = "RemoveInstruction" THEN RemoveInstruction_to_bytes(i)
    ELSE Instruction_to_bytes(i)

try_from_bytes(bytes, p) ==
    IF codec = "RemoveInstruction" THEN RemoveInstruction_try_from_bytes(bytes, p)
    ELSE Instruction_try_from_bytes(bytes, p)

---------------------------------------------------------------------------
(* Defaults of the variables a specification does not use.                 *)

GrowIdle ==
    /\ instr = NoInstr /\ prev = NoInstr /\ item = 0 /\ result = "none" /\ calls = 0

CodecIdle ==
    /\ codec = "none"
    /\ wire = <<>> /\ pos = 1 /\ prevPos = 1 /\ stream = <<>> /\ starts = <<>>
    /\ encoded = <<>> /\ decoded = <<>>

DiffIdle ==
    /\ lcs = <<>> /\ source = <<>> /\ target = <<>>
    /\ lcs_i = 1 /\ source_i = 1 /\ target_i = 1
    /\ pc = "idle" /\ iterStart = <<>>

---------------------------------------------------------------------------
(* Growth: push calls on an instruction that starts empty.                 *)

\* The items a caller pushes: any of Items on the first VariedPushes pushes and
\* on a full instruction, the default item in between.
PushItems ==
    IF calls < VariedPushes \/ is_full(instr) THEN Items ELSE {0}

GrowInit ==
    /\ \E k \in {"RemoveInstruction", "Remove", "Add", "Copy"} :
          /\ instr = [kind |-> k, length |-> 0, content |-> <<>>]
          /\ w \in (IF k = "RemoveInstruction" THEN Widths ELSE {1})
    /\ prev = NoInstr /\ item = 0 /\ result = "none" /\ calls = 0
    /\ CodecIdle /\ DiffIdle

PushCall ==
    /\ calls < MaxOf(instr) + ExtraPushes
    /\ \E byte \in PushItems :
          LET r == push(instr, byte) IN
          /\ instr' = r.instr
          /\ result' = r.result
          /\ item' = byte
    /\ prev' = instr
    /\ calls' = calls + 1
    /\ UNCHANGED <<w, codecVars, diffVars>>

GrowNext == PushCall

GrowSpec == GrowInit /\ [][GrowNext]_vars

\* C3: from an empty instruction exactly the first MAX pushes succeed, each
\* raising len() by one (Remove counts, Add and Copy append the item at the end
\* of content); a push on a full instruction returns ContentOverflow and leaves
\* the instruction as it was; len() stays in [MIN, MAX], is the content length
\* of an Add or Copy, and never wraps around.
CapacityBoundedGrowth ==
    /\ len(instr) = Min(calls, MaxOf(instr))
    /\ MinOf(instr) <= len(instr) /\ len(instr) <= MaxOf(instr)
    /\ instr.kind \in {"Add", "Copy"} => Len(instr.content) = len(instr)
    /\ calls > 0 =>
          /\ result = (IF calls <= MaxOf(instr) THEN "Ok" ELSE "ContentOverflow")
          /\ result = "ContentOverflow" => instr = prev /\ is_full(prev)
          /\ result = "Ok" =>
                /\ len(instr) = len(prev) + 1
                /\ instr.kind \in {"RemoveInstruction", "Remove"} =>
                      instr = [prev EXCEPT !.length = prev.length + 1]
                /\ instr.kind \in {"Add", "Copy"} =>
                      instr = [prev EXCEPT !.content = Append(prev.content, item)]

\* A push was refused on a full Add whose content holds a non-default item.
CapacityBoundedGrowthWitness ==
    /\ instr.kind = "Add"
    /\ result = "ContentOverflow"
    /\ calls = MAX_INSTRUCTION_LENGTH + ExtraPushes
    /\ Len(instr.content) = MAX_INSTRUCTION_LENGTH
    /\ instr.content[1] = 1

---------------------------------------------------------------------------
(* Decoding raw bytes: try_from_bytes called on a cursor until it fails.   *)

\* One call of try_from_bytes on the cursor.
TryFromBytes ==
    LET r == try_from_bytes(wire, pos) IN
    /\ pos' = r.pos
    /\ prevPos' = pos
    /\ result' = r.result
    /\ instr' = r.instr
    /\ decoded' = IF r.result = "Ok" THEN Append(decoded, r.instr) ELSE decoded
    /\ calls' = calls + 1
    /\ UNCHANGED <<w, codec, wire, stream, starts, encoded, prev, item, diffVars>>

CodecInit ==
    /\ codec \in {"Instruction", "RemoveInstruction"}
    /\ w \in (IF codec = "RemoveInstruction" THEN Widths ELSE {1})
    /\ wire \in SeqsUpTo(WireBytes, MaxWire)
    /\ pos = 1 /\ prevPos = 1 /\ stream = <<>> /\ starts = <<>>
    /\ encoded = <<>> /\ decoded = <<>>
    /\ GrowIdle /\ DiffIdle

TryFromBytesCall ==
    /\ result \in {"none", "Ok"}
    /\ TryFromBytes

CodecNext == TryFromBytesCall

CodecSpec == CodecInit /\ [][CodecNext]_vars

---------------------------------------------------------------------------
(* Encoding a stream and decoding it again.                                *)

\* The instructions a stream is made of.
InstructionPool ==
    IF codec = "RemoveInstruction"
    THEN {RemoveInstruction_new(l) : l \in LengthSamples \cap (0 .. InstructionLengthMAX)}
    ELSE LET contents == SeqsUpTo(ContentItems, MaxContent)
                            \cup {[k \in 1 .. MAX_INSTRUCTION_LENGTH |-> 7]}
         IN  {Remove(l) : l \in LengthSamples \cap (0 .. MAX_INSTRUCTION_LENGTH)}
                \cup {Add(c) : c \in contents} \cup {Copy(c) : c \in contents}

StreamInit ==
    /\ codec \in {"Instruction", "RemoveInstruction"}
    /\ w \in (IF codec = "RemoveInstruction" THEN Widths ELSE {1})
    /\ wire = <<>> /\ pos = 1 /\ prevPos = 1 /\ stream = <<>> /\ starts = <<>>
    /\ encoded = <<>> /\ decoded = <<>>
    /\ GrowIdle /\ DiffIdle

\* encode: the bytes of a sealed instruction are appended to the stream's bytes.
Seal ==
    /\ calls = 0
    /\ Len(stream) < MaxStream
    /\ \E i \in InstructionPool :
          /\ stream' = Append(stream, i)
          /\ starts' = Append(starts, Len(wire) + 1)
          /\ encoded' = to_bytes(i)
          /\ wire' = wire \o to_bytes(i)
    /\ UNCHANGED <<w, codec, pos, prevPos, decoded, growVars, diffVars>>

\* decode: try_from_bytes is called again while input is left.
DecodeNext ==
    /\ result \in {"none", "Ok"}
    /\ pos <= Len(wire)
    /\ TryFromBytes

StreamNext == Seal \/ DecodeNext

StreamSpec == StreamInit /\ [][StreamNext]_vars

---------------------------------------------------------------------------
(* The codec's claims.                                                     *)

\* The width of the length field of the codec in use.
W == IF codec = "RemoveInstruction" THEN w ELSE 1

RECURSIVE BigEndianValue(_)
\* The unsigned value of bytes read most significant first.
BigEndianValue(bs) ==
    IF bs = <<>> THEN 0
    ELSE bs[1] * 256 ^ (Len(bs) - 1) + BigEndianValue(Tail(bs))

\* The signs the decoder in use recognizes, and the variant each denotes.
SignKind ==
    IF codec = "RemoveInstruction" THEN [s \in {45} |-> "RemoveInstruction"]
    ELSE [s \in {45, 43, 124} |->
             CASE s = 45 -> "Remove" [] s = 43 -> "Add" [] s = 124 -> "Copy"]

\* C2: the concatenated to_bytes of a stream decodes, by try_from_bytes
\* repeated until the input is exhausted, without error to the same stream
\* (the empty stream included): each call returns the instruction that was
\* encoded and leaves the cursor on the first byte of the next one.
CodecRoundTrip ==
    /\ result \in {"none", "Ok"}
    /\ Len(decoded) <= Len(stream)
    /\ \A k \in 1 .. Len(decoded) : decoded[k] = stream[k]
    /\ pos = (IF Len(decoded) < Len(stream) THEN starts[Len(decoded) + 1]
              ELSE Len(wire) + 1)
    /\ pos > Len(wire) => decoded = stream

\* A two-instruction stream with a full Add and a Copy whose content holds the
\* Remove sign was decoded to the end.
CodecRoundTripWitness ==
    /\ Len(stream) = 2
    /\ decoded = stream
    /\ pos > Len(wire)
    /\ stream[1].kind = "Add" /\ Len(stream[1].content) = MAX_INSTRUCTION_LENGTH
    /\ stream[2] = Copy(<<45, 1>>)

\* C4: to_bytes is the sign byte ('-' Remove, '+' Add, '|' Copy), then len()
\* as W big-endian bytes, then the content of an Add or Copy and nothing for a
\* Remove: 1 + W bytes for a Remove (byte_length()), 1 + W + len() otherwise.
WireFormat ==
    stream # <<>> =>
        LET i == stream[Len(stream)] IN
        /\ encoded[1] = (CASE i.kind \in {"Remove", "RemoveInstruction"} -> 45
                           [] i.kind = "Add" -> 43
                           [] i.kind = "Copy" -> 124)
        /\ Len(encoded) >= 1 + W
        /\ \A k \in 1 .. Len(encoded) : encoded[k] \in Byte
        /\ BigEndianValue(SubSeq(encoded, 2, 1 + W)) = len(i)
        /\ i.kind \in {"Remove", "RemoveInstruction"} => Len(encoded) = 1 + W
        /\ i.kind = "RemoveInstruction" =>
              /\ Len(encoded) = RemoveInstruction_byte_length(i)
              /\ encoded[1] = RemoveInstruction_byte_sign(i)
        /\ i.kind \in {"Add", "Copy"} =>
              /\ Len(encoded) = 1 + W + len(i)
              /\ \A k \in 1 .. len(i) : encoded[1 + W + k] = i.content[k]

\* A Remove of length 258 was encoded with a two-byte length field.
WireFormatWitness ==
    /\ codec = "RemoveInstruction" /\ w = 2
    /\ stream # <<>>
    /\ stream[Len(stream)].length = 258
    /\ encoded = <<45, 1, 2>>

\* C5: try_from_bytes fails with MissingSign on an empty input and with
\* InvalidSign when the first byte is no sign the decoder recognizes, whatever
\* follows; it returns an instruction only when the first byte is a recognized
\* sign, and then of the variant the sign denotes.
SignDecoding ==
    calls > 0 =>
        /\ prevPos > Len(wire) => result = "MissingSign"
        /\ (prevPos <= Len(wire) /\ wire[prevPos] \notin DOMAIN SignKind) =>
              result = "InvalidSign"
        /\ result = "Ok" =>
              /\ prevPos <= Len(wire)
              /\ wire[prevPos] \in DOMAIN SignKind
              /\ instr.kind = SignKind[wire[prevPos]]

\* After a decoded Copy, a byte that is no sign was refused with bytes behind it.
SignDecodingWitness ==
    /\ calls = 2
    /\ decoded # <<>> /\ decoded[1].kind = "Copy"
    /\ result = "InvalidSign"
    /\ prevPos < Len(wire)

\* C6: after a recognized sign, fewer than W bytes never give an instruction:
\* MissingLength when no byte follows the sign, InvalidLength when at least one
\* but fewer than W follow; with W or more the decoded length is the big-endian
\* value of exactly the next W bytes.
LengthDecoding ==
    (calls > 0 /\ prevPos <= Len(wire) /\ wire[prevPos] \in DOMAIN SignKind) =>
        LET n == Len(wire) - prevPos
            L == BigEndianValue(SubSeq(wire, prevPos + 1, prevPos + W))
        IN  /\ n < W => result # "Ok"
            /\ n = 0 => result = "MissingLength"
            /\ (0 < n /\ n < W) => result = "InvalidLength"
            /\ (n >= W /\ wire[prevPos] = 45) =>
                  /\ result = "Ok"
                  /\ instr.length = L
                  /\ pos = prevPos + 1 + W
            /\ (n >= W /\ wire[prevPos] # 45) =>
                  \/ result = "Ok" /\ Len(instr.content) = L
                  \/ result = "MissingContent" /\ n - W < L

\* With a two-byte length field, length 258 was decoded and the next
\* instruction's length field was cut after one byte.
LengthDecodingWitness ==
    /\ w = 2
    /\ calls = 2
    /\ decoded # <<>> /\ decoded[1].length = 258
    /\ result = "InvalidLength"

\* C7: after an Add or Copy sign and an announced length L, try_from_bytes
\* succeeds exactly when at least L bytes follow the length field; it returns
\* the next L bytes in order (none when L = 0) and consumes nothing beyond
\* them; with fewer than L bytes it fails with MissingContent and never
\* returns content shorter than announced.
ContentDecoding ==
    (/\ calls > 0
     /\ codec = "Instruction"
     /\ prevPos + 1 <= Len(wire)
     /\ wire[prevPos] \in {43, 124}) =>
        LET L == wire[prevPos + 1]
            avail == Len(wire) - (prevPos + 1)
        IN  /\ (result = "Ok") <=> (avail >= L)
            /\ avail < L => result = "MissingContent"
            /\ result = "Ok" =>
                  /\ instr.kind = (IF wire[prevPos] = 43 THEN "Add" ELSE "Copy")
                  /\ instr.content = [k \in 1 .. L |-> wire[prevPos + 1 + k]]
                  /\ pos = prevPos + 2 + L

\* An empty Add was decoded, then a Copy announcing two bytes had only one.
ContentDecodingWitness ==
    /\ calls = 2
    /\ decoded = <<Add(<<>>)>>
    /\ Len(wire) = prevPos + 2
    /\ wire[prevPos] = 124 /\ wire[prevPos + 1] = 2
    /\ result = "MissingContent"

---------------------------------------------------------------------------
(* fill.  The cursors over the LCS, the source and the target are the      *)
(* variables lcs_i, source_i and target_i; a fill returns the instruction  *)
(* and the cursor it moved, or "panic" when an unwrap() failed.            *)

RECURSIVE RemoveInstruction_fill_no_full_test(_, _)
\* Remove.fill without the !self.is_full() test of its loop.
RemoveInstruction_fill_no_full_test(i, si) ==
    IF /\ lcs_i <= Len(lcs)
       /\ si <= Len(source)
       /\ lcs[lcs_i] # source[si]
    THEN LET r == RemoveInstruction_push(i, source[si]) IN
         IF r.result # "Ok"
         THEN [instr |-> i, source_i |-> si + 1, result |-> "panic"]
         ELSE RemoveInstruction_fill_no_full_test(r.instr, si + 1)
    ELSE [instr |-> i, source_i |-> si, result |-> "Ok"]

RECURSIVE RemoveInstruction_fill(_, _)
\* Remove.fill: while the LCS cursor and the source cursor have a next item,
\* the two differ and the instruction is not full, the source item is consumed
\* and pushed.  lcs_item is peeked once; the LCS cursor is never moved.
RemoveInstruction_fill(i, si) ==
    IF /\ lcs_i <= Len(lcs)
       /\ si <= Len(source)
       /\ lcs[lcs_i] # source[si]
       /\ ~RemoveInstruction_is_full(i)
    THEN LET r == RemoveInstruction_push(i, source[si]) IN
         IF r.result # "Ok"
         THEN [instr |-> i, source_i |-> si + 1, result |-> "panic"]
         ELSE RemoveInstruction_fill(r.instr, si + 1)
    ELSE [instr |-> i, source_i |-> si, result |-> "Ok"]

RECURSIVE Add_fill(_, _)
\* Add.fill (spec.md 4.2): the same on the target cursor, the item pushed as
\* content.
Add_fill(i, ti) ==
    IF /\ ti <= Len(target)
       /\ lcs_i <= Len(lcs)
       /\ lcs[lcs_i] # target[ti]
       /\ ~Instruction_is_full(i)
    THEN Add_fill(Instruction_push(i, target[ti]).instr, ti + 1)
    ELSE [instr |-> i, target_i |-> ti]

RECURSIVE Copy_fill(_, _, _, _)
\* Copy.fill (spec.md 4.2): while the three cursors have a next item, the three
\* items are equal and the instruction is not full, one item of each is
\* consumed and pushed as content.
Copy_fill(i, li, si, ti) ==
    IF /\ li <= Len(lcs) /\ si <= Len(source) /\ ti <= Len(target)
       /\ lcs[li] = source[si] /\ source[si] = target[ti]
       /\ ~Instruction_is_full(i)
    THEN Copy_fill(Instruction_push(i, lcs[li]).instr, li + 1, si + 1, ti + 1)
    ELSE [instr |-> i, lcs_i |-> li, source_i |-> si, target_i |-> ti]

---------------------------------------------------------------------------
(* One call of Remove.fill.                                                *)

\* The lengths of the Remove instruction fill is called on.
FillLengths ==
    {0, 1, InstructionLengthMAX - 2, InstructionLengthMAX - 1, InstructionLengthMAX}

FillInit ==
    /\ w \in Widths
    /\ \E l \in FillLengths : instr = RemoveInstruction_new(l)
    /\ lcs \in SeqsUpTo(Items, MaxFill)
    /\ source \in SeqsUpTo(Items, MaxFill)
    /\ target \in SeqsUpTo(Items, 1)
    /\ lcs_i = 1 /\ source_i = 1 /\ target_i = 1
    /\ pc = "fill" /\ iterStart = <<>>
    /\ prev = NoInstr /\ item = 0 /\ result = "none" /\ calls = 0
    /\ CodecIdle

FillCall ==
    /\ pc = "fill"
    /\ calls = 0
    /\ LET r == RemoveInstruction_fill(instr, source_i) IN
       /\ instr' = r.instr
       /\ source_i' = r.source_i
       /\ result' = r.result
    /\ prev' = instr
    /\ calls' = 1
    /\ UNCHANGED <<w, item, codecVars, lcs, source, target, lcs_i, target_i, pc,
                   iterStart>>

FillNext == FillCall

FillSpec == FillInit /\ [][FillNext]_vars

\* The number of leading items of s that differ from h.
LeadingDifferent(s, h) ==
    CHOOSE n \in 0 .. Len(s) :
        /\ \A k \in 1 .. n : s[k] # h
        /\ n < Len(s) => s[n + 1] = h

\* C9: Remove.fill on a Remove of length l consumes exactly k source items and
\* raises the length to l + k, where k = 0 when the LCS cursor has no next item
\* and else k = min(MAX - l, number of leading source items that differ from
\* the peeked LCS item); it never moves the LCS or the target cursor and its
\* push never fails.
RemoveFill ==
    calls > 0 =>
        LET l == prev.length
            k == IF lcs = <<>> THEN 0
                 ELSE Min(InstructionLengthMAX - l, LeadingDifferent(source, lcs[1]))
        IN  /\ result = "Ok"
            /\ source_i = 1 + k
            /\ instr = RemoveInstruction_new(l + k)
            /\ lcs_i = 1
            /\ target_i = 1

\* A Remove one short of full took one of two source items off the backbone.
RemoveFillWitness ==
    /\ calls > 0
    /\ prev.length = InstructionLengthMAX - 1
    /\ instr.length = InstructionLengthMAX
    /\ source_i = 2
    /\ Len(source) >= 2 /\ lcs # <<>>
    /\ source[2] # lcs[1]

---------------------------------------------------------------------------
(* The diff engine and the applier (spec.md 4.1, 4.3, 4.5).                *)

RECURSIVE LCS(_, _)
\* A longest common subsequence of s and t.
LCS(s, t) ==
    IF s = <<>> \/ t = <<>> THEN <<>>
    ELSE IF Head(s) = Head(t) THEN <<Head(s)>> \o LCS(Tail(s), Tail(t))
    ELSE LET a == LCS(Tail(s), t)
             b == LCS(s, Tail(t))
         IN  IF Len(a) >= Len(b) THEN a ELSE b

AllExhausted ==
    lcs_i > Len(lcs) /\ source_i > Len(source) /\ target_i > Len(target)

DiffInit ==
    /\ w \in Widths
    /\ target \in SeqsUpTo(DiffItems, MaxInput)
    /\ source \in SeqsUpTo(DiffItems, MaxInput)
    /\ lcs = LCS(source, target)
    /\ lcs_i = 1 /\ source_i = 1 /\ target_i = 1
    /\ pc = "loop" /\ iterStart = <<>>
    /\ codec = "none"
    /\ wire = <<>> /\ pos = 1 /\ prevPos = 1 /\ stream = <<>> /\ starts = <<>>
    /\ encoded = <<>> /\ decoded = <<>>
    /\ GrowIdle

\* The test of the outer loop: repeat until the three cursors are exhausted.
LoopTest ==
    /\ pc = "loop"
    /\ IF AllExhausted
       THEN pc' = "done" /\ UNCHANGED iterStart
       ELSE pc' = "remove" /\ iterStart' = <<lcs_i, source_i, target_i>>
    /\ UNCHANGED <<w, growVars, codecVars, lcs, source, target, lcs_i, source_i,
                   target_i>>

\* Step 1: a Remove is opened and filled; it is appended unless empty, and a
\* full one is followed by another Remove.
RemoveStep ==
    /\ pc = "remove"
    /\ LET r == RemoveInstruction_fill(RemoveInstruction_new(InstructionLengthMIN),
                                       source_i)
       IN  /\ source_i' = r.source_i
           /\ result' = r.result
           /\ stream' = IF RemoveInstruction_is_empty(r.instr) THEN stream
                        ELSE Append(stream, r.instr)
           /\ pc' = IF RemoveInstruction_is_full(r.instr) THEN "remove" ELSE "add"
    /\ UNCHANGED <<w, instr, prev, item, calls, codec, wire, pos, prevPos, starts,
                   encoded, decoded, lcs, source, target, lcs_i, target_i, iterStart>>

\* Step 2: the same with an Add.
AddStep ==
    /\ pc = "add"
    /\ LET r == Add_fill(Add(<<>>), target_i) IN
       /\ target_i' = r.target_i
       /\ stream' = IF Instruction_is_empty(r.instr) THEN stream
                    ELSE Append(stream, r.instr)
       /\ pc' = IF Instruction_is_full(r.instr) THEN "add" ELSE "copy"
    /\ UNCHANGED <<w, growVars, codec, wire, pos, prevPos, starts, encoded, decoded,
                   lcs, source, target, lcs_i, source_i, iterStart>>

\* Step 3: the same with a Copy; then the loop is tested again.
CopyStep ==
    /\ pc = "copy"
    /\ LET r == Copy_fill(Copy(<<>>), lcs_i, source_i, target_i) IN
       /\ lcs_i' = r.lcs_i
       /\ source_i' = r.source_i
       /\ target_i' = r.target_i
       /\ stream' = IF Instruction_is_empty(r.instr) THEN stream
                    ELSE Append(stream, r.instr)
       /\ pc' = IF Instruction_is_full(r.instr) THEN "copy" ELSE "loop"
    /\ UNCHANGED <<w, growVars, codec, wire, pos, prevPos, starts, encoded, decoded,
                   lcs, source, target, iterStart>>

DiffNext == LoopTest \/ RemoveStep \/ AddStep \/ CopyStep

DiffSpec == DiffInit /\ [][DiffNext]_vars

RECURSIVE Apply(_, _, _, _)
\* The applier on instructions k.. of a stream, with the source cursor at si
\* and the output so far: Remove skips its length of source (SourceUnderrun
\* when less is left), Add appends its content, Copy appends its content and
\* skips as much source.  Copy's content is not compared with the source.
Apply(instructions, k, si, output) ==
    IF k > Len(instructions) THEN [result |-> "Ok", output |-> output]
    ELSE LET i == instructions[k] IN
         CASE i.kind \in {"Remove", "RemoveInstruction"} ->
                 IF Len(source) - si + 1 < i.length
                 THEN [result |-> "SourceUnderrun", output |-> output]
                 ELSE Apply(instructions, k + 1, si + i.length, output)
           [] i.kind = "Add" -> Apply(instructions, k + 1, si, output \o i.content)
           [] i.kind = "Copy" ->
                 Apply(instructions, k + 1, si + Len(i.content), output \o i.content)

\* diff can append nothing more to the stream: its loop has ended, or an outer
\* iteration has just left the three cursors where they were.
Settled ==
    \/ pc = "done"
    \/ pc = "loop" /\ iterStart = <<lcs_i, source_i, target_i>>

RECURSIVE RemovedLength(_)
RemovedLength(instructions) ==
    IF instructions = <<>> THEN 0
    ELSE Head(instructions).length + RemovedLength(Tail(instructions))

RECURSIVE Contents(_)
Contents(instructions) ==
    IF instructions = <<>> THEN <<>>
    ELSE Head(instructions).content \o Contents(Tail(instructions))

\* C1: for all S and T diff(S, T) is produced, and replaying it on S succeeds
\* and outputs exactly T.
RoundTrip ==
    Settled =>
        /\ pc = "done"
        /\ Apply(stream, 1, 1, <<>>) = [result |-> "Ok", output |-> target]

\* C8: when source and target share no byte (the LCS is empty), diff yields
\* Remove instructions whose lengths sum to the source length, then Add
\* instructions holding the whole target: diff("AAA", "") = [Remove{3}] and
\* diff("AAA", "B") = [Remove{3}, Add{"B"}].
NoCommonByteDiff ==
    (Settled /\ lcs = <<>>) =>
        /\ \E j \in 0 .. Len(stream) :
              /\ \A k \in 1 .. j : stream[k].kind = "RemoveInstruction"
              /\ \A k \in j + 1 .. Len(stream) : stream[k].kind = "Add"
              /\ RemovedLength(SubSeq(stream, 1, j)) = Len(source)
              /\ Contents(SubSeq(stream, j + 1, Len(stream))) = target
        /\ (source = <<65, 65, 65>> /\ target = <<>>) =>
              stream = <<RemoveInstruction_new(3)>>
        /\ (source = <<65, 65, 65>> /\ target = <<66>>) =>
              stream = <<RemoveInstruction_new(3), Add(<<66>>)>>

\* C10: the diff loop ends for all inputs: every outer iteration advances at
\* least one cursor or finds all three cursors exhausted.
EveryIterationAdvances ==
    (pc = "loop" /\ iterStart # <<>>) =>
        \/ iterStart # <<lcs_i, source_i, target_i>>
        \/ AllExhausted

====
